---- MODULE Spec2Model ----
(***************************************************************************)
(* Model of the documentation publish pipeline of Yelp/graphql-guidelines: *)
(* deploy_docs.sh, a linear POSIX shell script run under `set -e`.         *)
(*                                                                         *)
(* The script is run from a checkout of the project (a "workspace").  Two  *)
(* workspaces exist: the CI runner's checkout and a developer's checkout.  *)
(* Each workspace has its own output directory `build`; the only shared    *)
(* object is the branch `docs` of the remote repository.                   *)
(*                                                                         *)
(* Every command of the script is one action.  A command either succeeds   *)
(* (status 0) or fails with a non-zero status; under `set -e` a failing    *)
(* command ends the script with that status.                               *)
(***************************************************************************)
EXTENDS Integers, Sequences, FiniteSets, TLC

(* ---------------------------------------------------------------- bounds *)
MaxRuns == 2            \* invocations of the script over all workspaces
MaxDocVersion == 2      \* revisions of the content source tree

(* ------------------------------------------------------------- constants *)
Workspaces == {"ci", "dev"}

\* the commands of deploy_docs.sh, in script order
Script == << "rm", "build", "cd", "touch", "init", "add",
             "email", "name", "commit", "push", "cdback" >>

Steps == {Script[i] : i \in 1..Len(Script)}

\* non-zero statuses a failing command may return: 1 from rm, vuepress, cd and
\* touch; 128 from a git command that dies; 1 as well from a rejected push
FailCodes(s) ==
    IF s \in {"rm", "build", "cd", "touch", "cdback"} THEN {1}
    ELSE IF s = "push" THEN {1, 128}
    ELSE {128}

\* branch names `git init` may give the initial branch (init.defaultBranch)
DefaultBranches == {"main", "master"}

\* the refspec of the push is main:docs
PushSource == "main"

UserEmail == "darwin@yelp.com"
UserName == "Darwin S."
CommitMessage == "deploy"

(* ------------------------------------------------------------ file trees *)
\* pages the Builder renders: one per source document of the sidebar
\* (docs/.vuepress/config.js: children '/schema-design', '/nullability')
Pages == {"schema-design.html", "nullability.html"}
Marker == ".nojekyll"
Names == Pages \cup {Marker, "old.html"}

Absent == << "absent", 0 >>
EmptyFile == << "empty", 0 >>
Stale == << "stale", 0 >>
Render(v) == << "html", v >>

EmptyTree == [n \in Names |-> Absent]

\* a leftover of an earlier build made by other means: an outdated page, a
\* page that no longer exists in the sources, and a non-empty marker file
StaleTree == [n \in Names |-> IF n = "nullability.html" THEN Absent ELSE Stale]

FilesOf(tree) == {n \in Names : tree[n] # Absent}

\* output of `vuepress build docs --dest build` for revision v of the sources
Generated(v) == [n \in Names |-> IF n \in Pages THEN Render(v) ELSE Absent]

\* writing the files of `new` over `old`; files only in `old` are kept
Overwrite(old, new) == [n \in Names |-> IF new[n] # Absent THEN new[n] ELSE old[n]]

\* what a failed Builder may leave at the destination: only part of its output
Partial(v) == [n \in Names |-> IF n = "schema-design.html" THEN Render(v) ELSE Absent]

NoDir == [exists |-> FALSE, files |-> EmptyTree]

\* build/.git
NoRepo == [init |-> FALSE, branch |-> "", index |-> EmptyTree, log |-> << >>,
           email |-> "", name |-> ""]

\* what the docs branch held before the pipeline ever ran
OldCommit(d) == [tree |-> StaleTree, author |-> << "someone", "else" >>,
                 date |-> d, message |-> "manual"]

InitialRemotes == { << >>, << OldCommit(-2), OldCommit(-1) >> }

\* the checkout around build: the project's own history and branches, the
\* content sources and the build configuration
InitialProject ==
    [history |-> << "initial commit" >>, branches |-> {"main"},
     sources |-> {"docs/schema-design.md", "docs/nullability.md"},
     config |-> "docs/.vuepress/config.js"]

\* no user.email and no user.name
NoIdentity == [email |-> "", name |-> ""]

\* an event of the project's repository: its kind and the branch it is about
NoEvent == [kind |-> "none", branch |-> ""]

\* the CI runner starts from a fresh checkout, which has no build directory;
\* the developer's checkout holds the output of an earlier build
InitialBuild(w) == IF w = "ci" THEN NoDir ELSE [exists |-> TRUE, files |-> StaleTree]

VARIABLES
    pc,        \* pc[w]: the command the script in workspace w is about to run
    cwd,       \* cwd[w]: "root" (the checkout) or "build"
    build,     \* build[w]: the output directory: [exists, files]
    repo,      \* repo[w]: the repository in build/.git
    exit,      \* exit[w]: exit status of the script (-1 while it has none)
    trace,     \* trace[w]: the commands run so far in this run: <<step, status>>
    runNo,     \* runNo[w]: number of the invocation w is running or ran last
    startRemote, \* startRemote[w]: the remote branch when the run of w started
    hadBuild,  \* hadBuild[w]: whether build existed when the run of w started
    builtFrom, \* builtFrom[w]: revision of the sources the Builder read
    runs,      \* number of invocations so far
    docs,      \* current revision of the content source tree
    now,       \* wall clock, in seconds
    remote,    \* history of branch docs of the remote (oldest first)
    published, \* the pushes the remote accepted: [run, from, snapshot]
    project,   \* project[w]: the checkout outside build: its history and files
    gitGlobal, \* gitGlobal[w]: the identity in the user's git configuration
    wfpc,      \* the step the CI workflow run is at ("idle" when none runs)
    wfEvent,   \* the event that triggered the CI workflow run
    wfTrace,   \* the steps of the CI workflow run so far: <<step, status>>
    lastEvent  \* the last event the project's repository has seen

ciVars == << wfpc, wfEvent, wfTrace, lastEvent >>

vars == << pc, cwd, build, repo, exit, trace, runNo, startRemote, hadBuild,
           builtFrom, runs, docs, now, remote, published, project, gitGlobal,
           wfpc, wfEvent, wfTrace, lastEvent >>

Running(w) == pc[w] \in Steps

Init ==
    /\ pc = [w \in Workspaces |-> "idle"]
    /\ cwd = [w \in Workspaces |-> "root"]
    /\ build = [w \in Workspaces |-> InitialBuild(w)]
    /\ repo = [w \in Workspaces |-> NoRepo]
    /\ exit = [w \in Workspaces |-> -1]
    /\ trace = [w \in Workspaces |-> << >>]
    /\ runNo = [w \in Workspaces |-> 0]
    /\ startRemote = [w \in Workspaces |-> << >>]
    /\ hadBuild = [w \in Workspaces |-> FALSE]
    /\ builtFrom = [w \in Workspaces |-> 0]
    /\ runs = 0
    /\ docs = 1
    /\ now = 0
    /\ remote \in InitialRemotes
    /\ published = << >>
    /\ project = [w \in Workspaces |-> InitialProject]
    /\ gitGlobal = [w \in Workspaces |-> NoIdentity]
    /\ wfpc = "idle"
    /\ wfEvent = NoEvent
    /\ wfTrace = << >>
    /\ lastEvent = NoEvent

(* ------------------------------------------------------------ the shell *)
StepIndex(s) == CHOOSE i \in 1..Len(Script) : Script[i] = s

\* a script that pushes before it commits
NextStepPushFirst(s) ==
    IF s = "name" THEN "push"
    ELSE IF s = "push" THEN "commit"
    ELSE IF s = "commit" THEN "cdback"
    ELSE IF StepIndex(s) < Len(Script) THEN Script[StepIndex(s) + 1] ELSE "exited"

\* the command after s; after the last command the script exits
NextStep(s) == IF StepIndex(s) < Len(Script) THEN Script[StepIndex(s) + 1] ELSE "exited"

\* a command returned 0: go on with the next one; falling off the end of the
\* script exits with the status of the last command
Succeed(w, s) ==
    /\ trace' = [trace EXCEPT ![w] = Append(@, << s, 0 >>)]
    /\ pc' = [pc EXCEPT ![w] = NextStep(s)]
    /\ exit' = [exit EXCEPT ![w] = IF NextStep(s) = "exited" THEN 0 ELSE @]

\* without `set -e` the shell goes on after a failing command
ErrContinue(w, s, c) ==
    /\ pc' = [pc EXCEPT ![w] = NextStep(s)]
    /\ exit' = [exit EXCEPT ![w] = IF NextStep(s) = "exited" THEN c ELSE @]

\* a shell that ends the script at a failing command but reports success
ErrExitMasked(w, s, c) ==
    /\ pc' = [pc EXCEPT ![w] = "exited"]
    /\ exit' = [exit EXCEPT ![w] = 0]

\* a shell that runs a failing command again
ErrRetry(w, s, c) ==
    /\ pc' = [pc EXCEPT ![w] = s]
    /\ exit' = exit

\* set -e: a command returning non-zero ends the script with that status
ErrExit(w, s, c) ==
    /\ pc' = [pc EXCEPT ![w] = "exited"]
    /\ exit' = [exit EXCEPT ![w] = c]

Fail(w, s, c) ==
    /\ c \in FailCodes(s)
    /\ trace' = [trace EXCEPT ![w] = Append(@, << s, c >>)]
    /\ ErrExit(w, s, c)

\* the script is started in workspace w
Start(w) ==
    /\ runs < MaxRuns
    /\ ~Running(w)
    /\ runs' = runs + 1
    /\ runNo' = [runNo EXCEPT ![w] = runs + 1]
    /\ pc' = [pc EXCEPT ![w] = Script[1]]
    /\ cwd' = [cwd EXCEPT ![w] = "root"]
    /\ exit' = [exit EXCEPT ![w] = -1]
    /\ trace' = [trace EXCEPT ![w] = << >>]
    /\ startRemote' = [startRemote EXCEPT ![w] = remote]
    /\ hadBuild' = [hadBuild EXCEPT ![w] = build[w].exists]
    /\ builtFrom' = [builtFrom EXCEPT ![w] = 0]
    /\ UNCHANGED << build, repo, docs, now, remote, published, project, gitGlobal >>

\* the pipeline assumes one publish at a time
Invoke(w) ==
    /\ \A o \in Workspaces : ~Running(o)
    /\ Start(w)
    /\ UNCHANGED ciVars

\* nothing enforces that assumption
InvokeConcurrently(w) == Start(w) /\ UNCHANGED ciVars

(* ------------------------------------------------- deploy_docs.sh, line 6 *)
\* a removal that leaves the directory behind
RmKeep(dir) == dir

\* the state of build after `rm -rf build` succeeded
RmRf(dir) == NoDir

\* build/.git goes with the directory
RmRfRepo(dir, r) == IF RmRf(dir).exists THEN r ELSE NoRepo

RmBuild(w) ==
    /\ pc[w] = "rm"
    /\ \/ /\ Succeed(w, "rm")
          /\ build' = [build EXCEPT ![w] = RmRf(@)]
          /\ repo' = [repo EXCEPT ![w] = RmRfRepo(build[w], @)]
       \/ /\ \E c \in FailCodes("rm") : Fail(w, "rm", c)
          /\ UNCHANGED << build, repo >>
    /\ UNCHANGED << cwd, runNo, startRemote, hadBuild, builtFrom, runs, docs, now,
                    remote, published, project, gitGlobal, ciVars >>

(* ------------------------------------------------- deploy_docs.sh, line 9 *)
\* a Builder that writes nothing
BuildNothing(dir, v) == dir

\* node_modules/.bin/vuepress build docs --dest build, on success: the
\* destination exists and holds the rendering of the sources
BuildOutput(dir, v) == [exists |-> TRUE, files |-> Overwrite(dir.files, Generated(v))]

\* on failure the destination may be missing or hold part of the output
BuildFailure(dir, v) ==
    {dir, [exists |-> TRUE, files |-> Overwrite(dir.files, Partial(v))]}

\* the Builder runs for at least a second
VuepressBuild(w) ==
    /\ pc[w] = "build"
    /\ builtFrom' = [builtFrom EXCEPT ![w] = docs]
    /\ now' = now + 1
    /\ \/ /\ Succeed(w, "build")
          /\ build' = [build EXCEPT ![w] = BuildOutput(@, docs)]
       \/ /\ \E c \in FailCodes("build") : Fail(w, "build", c)
          /\ \E d \in BuildFailure(build[w], docs) : build' = [build EXCEPT ![w] = d]
    /\ UNCHANGED << cwd, repo, runNo, startRemote, hadBuild, runs, docs, remote,
                    published, project, gitGlobal, ciVars >>

(* ------------------------------------------------ deploy_docs.sh, line 12 *)
CdBuild(w) ==
    /\ pc[w] = "cd"
    /\ \/ /\ build[w].exists
          /\ Succeed(w, "cd")
          /\ cwd' = [cwd EXCEPT ![w] = "build"]
       \/ /\ \E c \in FailCodes("cd") : Fail(w, "cd", c)
          /\ UNCHANGED cwd
    /\ UNCHANGED << build, repo, runNo, startRemote, hadBuild, builtFrom, runs, docs, now,
                    remote, published, project, gitGlobal, ciVars >>

(* ------------------------------------------------ deploy_docs.sh, line 14 *)
\* a touch that creates nothing
TouchNothing(files) == files

\* touch creates an empty file, or leaves an existing file's content alone
Touch(files) ==
    [files EXCEPT ![Marker] = IF @ = Absent THEN EmptyFile ELSE @]

TouchNojekyll(w) ==
    /\ pc[w] = "touch"
    /\ \/ /\ cwd[w] = "build"
          /\ Succeed(w, "touch")
          /\ build' = [build EXCEPT ![w].files = Touch(@)]
       \/ /\ \E c \in FailCodes("touch") : Fail(w, "touch", c)
          /\ UNCHANGED build
    /\ UNCHANGED << cwd, repo, runNo, startRemote, hadBuild, builtFrom, runs, docs, now,
                    remote, published, project, gitGlobal, ciVars >>

(* ------------------------------------------------ deploy_docs.sh, line 16 *)
\* git init in a directory without .git creates an empty repository whose
\* initial branch is named b; in a directory with .git it changes nothing
InitRepo(r, b) ==
    IF r.init THEN r
    ELSE [init |-> TRUE, branch |-> b, index |-> EmptyTree, log |-> << >>,
          email |-> "", name |-> ""]

GitInit(w) ==
    /\ pc[w] = "init"
    /\ \/ /\ cwd[w] = "build"
          /\ Succeed(w, "init")
          /\ \E b \in DefaultBranches : repo' = [repo EXCEPT ![w] = InitRepo(@, b)]
       \/ /\ \E c \in FailCodes("init") : Fail(w, "init", c)
          /\ UNCHANGED repo
    /\ UNCHANGED << cwd, build, runNo, startRemote, hadBuild, builtFrom, runs, docs, now,
                    remote, published, project, gitGlobal, ciVars >>

(* ------------------------------------------------ deploy_docs.sh, line 17 *)
\* staging that leaves the dotfiles out (git add *)
StageVisible(files) == [files EXCEPT ![Marker] = Absent]

\* git add -A: the index becomes the working tree, every file of it
StageAll(files) == files

GitAdd(w) ==
    /\ pc[w] = "add"
    /\ \/ /\ cwd[w] = "build"
          /\ repo[w].init
          /\ Succeed(w, "add")
          /\ repo' = [repo EXCEPT ![w].index = StageAll(build[w].files)]
       \/ /\ \E c \in FailCodes("add") : Fail(w, "add", c)
          /\ UNCHANGED repo
    /\ UNCHANGED << cwd, build, runNo, startRemote, hadBuild, builtFrom, runs, docs, now,
                    remote, published, project, gitGlobal, ciVars >>

(* ------------------------------------------- deploy_docs.sh, lines 18, 19 *)
\* git config --global writes the configuration of the user, ~/.gitconfig
ConfigFileGlobal == "global"

\* git config without --global writes the configuration of the repository
\* the command runs in, build/.git/config
ConfigFile == "local"

\* the repository after git config key val
SetLocal(r, key, val) ==
    IF ConfigFile # "local" THEN r
    ELSE IF key = "email" THEN [r EXCEPT !.email = val] ELSE [r EXCEPT !.name = val]

\* the configuration of the user after git config key val
SetGlobal(g, key, val) ==
    IF ConfigFile # "global" THEN g
    ELSE IF key = "email" THEN [g EXCEPT !.email = val] ELSE [g EXCEPT !.name = val]

GitConfigEmail(w) ==
    /\ pc[w] = "email"
    /\ \/ /\ cwd[w] = "build"
          /\ repo[w].init
          /\ Succeed(w, "email")
          /\ repo' = [repo EXCEPT ![w] = SetLocal(@, "email", UserEmail)]
          /\ gitGlobal' = [gitGlobal EXCEPT ![w] = SetGlobal(@, "email", UserEmail)]
       \/ /\ \E c \in FailCodes("email") : Fail(w, "email", c)
          /\ UNCHANGED << repo, gitGlobal >>
    /\ UNCHANGED << cwd, build, runNo, startRemote, hadBuild, builtFrom, runs, docs, now,
                    remote, published, project, ciVars >>

GitConfigName(w) ==
    /\ pc[w] = "name"
    /\ \/ /\ cwd[w] = "build"
          /\ repo[w].init
          /\ Succeed(w, "name")
          /\ repo' = [repo EXCEPT ![w] = SetLocal(@, "name", UserName)]
          /\ gitGlobal' = [gitGlobal EXCEPT ![w] = SetGlobal(@, "name", UserName)]
       \/ /\ \E c \in FailCodes("name") : Fail(w, "name", c)
          /\ UNCHANGED << repo, gitGlobal >>
    /\ UNCHANGED << cwd, build, runNo, startRemote, hadBuild, builtFrom, runs, docs, now,
                    remote, published, project, ciVars >>

(* ------------------------------------------------ deploy_docs.sh, line 20 *)
\* the tree of the commit the branch points at
HeadTree(r) == IF r.log = << >> THEN EmptyTree ELSE r.log[Len(r.log)].tree

\* a commit that records no time
CommitUndated(r, t) ==
    [tree |-> r.index, author |-> << r.name, r.email >>, date |-> 0,
     message |-> CommitMessage]

\* the commit git commit -m 'deploy' creates at time t: the staged tree, the
\* configured identity, the time and the message
NewCommit(r, t) ==
    [tree |-> r.index, author |-> << r.name, r.email >>, date |-> t,
     message |-> CommitMessage]

\* the identity git commit uses: the repository's, else the user's
WithIdentity(r, g) ==
    [r EXCEPT !.email = IF @ = "" THEN g.email ELSE @,
              !.name = IF @ = "" THEN g.name ELSE @]

\* git commit refuses when nothing is staged that differs from HEAD
GitCommit(w) ==
    /\ pc[w] = "commit"
    /\ \/ /\ cwd[w] = "build"
          /\ repo[w].init
          /\ repo[w].index # HeadTree(repo[w])
          /\ Succeed(w, "commit")
          /\ repo' = [repo EXCEPT ![w].log = Append(@, NewCommit(WithIdentity(repo[w], gitGlobal[w]), now))]
       \/ /\ \E c \in FailCodes("commit") : Fail(w, "commit", c)
          /\ UNCHANGED repo
    /\ UNCHANGED << cwd, build, runNo, startRemote, hadBuild, builtFrom, runs, docs, now,
                    remote, published, project, gitGlobal, ciVars >>

(* ------------------------------------------------ deploy_docs.sh, line 22 *)
\* a push that adds the local commits on top of the remote history
PushAppend(old, log) == old \o log

\* a push that merges the pushed tree into the files already on the branch
PushMerge(old, log) ==
    IF old = << >> THEN log
    ELSE << [log[Len(log)] EXCEPT !.tree = Overwrite(old[Len(old)].tree, @)] >>

\* git push -f: the remote branch becomes the pushed branch, whatever it held
ForcePush(old, log) == log

\* a failing push that has already written to the remote branch
HalfPush(old, log) == old \o log

\* a push that fails leaves the remote branch as it was
RejectedPush(old, log) == old

\* a push of whatever branch is checked out (refspec HEAD:docs)
CanPushHead(r) == r.init /\ r.log # << >>

\* the source of the refspec main:docs resolves only when the repository has
\* a branch of that name with a commit on it
CanPush(r) == r.init /\ r.branch = PushSource /\ r.log # << >>

\* the push needs a local branch named as the source of the refspec; the
\* update of the remote branch is one atomic write
GitPush(w) ==
    /\ pc[w] = "push"
    /\ \/ /\ cwd[w] = "build"
          /\ CanPush(repo[w])
          /\ Succeed(w, "push")
          /\ remote' = ForcePush(remote, repo[w].log)
          /\ published' = Append(published, [run |-> runNo[w], from |-> builtFrom[w],
                                              snapshot |-> remote'])
       \/ /\ \E c \in FailCodes("push") : Fail(w, "push", c)
          /\ remote' = RejectedPush(remote, repo[w].log)
          /\ UNCHANGED published
    /\ UNCHANGED << cwd, build, repo, runNo, startRemote, hadBuild, builtFrom, runs, docs, now,
                    project, gitGlobal, ciVars >>

(* ------------------------------------------------ deploy_docs.sh, line 24 *)
CdBack(w) ==
    /\ pc[w] = "cdback"
    /\ \/ /\ Succeed(w, "cdback")
          /\ cwd' = [cwd EXCEPT ![w] = "root"]
       \/ /\ \E c \in FailCodes("cdback") : Fail(w, "cdback", c)
          /\ UNCHANGED cwd
    /\ UNCHANGED << build, repo, runNo, startRemote, hadBuild, builtFrom, runs, docs, now,
                    remote, published, project, gitGlobal, ciVars >>

(* ------------------------------------------------------- the environment *)
\* the content source tree is edited
EditDocs ==
    /\ docs < MaxDocVersion
    /\ docs' = docs + 1
    /\ UNCHANGED << pc, cwd, build, repo, exit, trace, runNo, startRemote,
                    hadBuild, builtFrom, runs, now, remote, published, project,
                    gitGlobal, ciVars >>

Step(w) ==
    \/ RmBuild(w)
    \/ VuepressBuild(w)
    \/ CdBuild(w)
    \/ TouchNojekyll(w)
    \/ GitInit(w)
    \/ GitAdd(w)
    \/ GitConfigEmail(w)
    \/ GitConfigName(w)
    \/ GitCommit(w)
    \/ GitPush(w)
    \/ CdBack(w)

\* one publish at a time
Next ==
    \/ \E w \in Workspaces : Invoke(w)
    \/ \E w \in Workspaces : Step(w)
    \/ EditDocs

Spec == Init /\ [][Next]_vars

\* publishes may overlap
NextConcurrent ==
    \/ \E w \in Workspaces : InvokeConcurrently(w)
    \/ \E w \in Workspaces : Step(w)
    \/ EditDocs

SpecConcurrent == Init /\ [][NextConcurrent]_vars

(* ------------------------------------------------------------ vocabulary *)
\* the run of w is the most recent invocation of the script
Latest(w) == runNo[w] > 0 /\ runNo[w] = runs

Exited(w) == pc[w] = "exited"

\* positions of trace[w] at which command s ran
RanAt(w, s) == {i \in 1..Len(trace[w]) : trace[w][i][1] = s}

Ran(w, s) == RanAt(w, s) # {}

Failed(w, s) == \E i \in RanAt(w, s) : trace[w][i][2] # 0

Succeeded(w) == Exited(w) /\ exit[w] = 0

\* the output of a build of revision v with the marker file added
Publishable(v) == [Generated(v) EXCEPT ![Marker] = EmptyFile]

(* ---------------------------------------------------------------- claims *)
\* C1: fail-fast.  A command that returned non-zero is the last command the
\* run executed, and the run has ended there: no later command of the script
\* is executed after a failing one, whichever command fails.
C1_FailFast ==
    \A w \in Workspaces : \A i \in 1..Len(trace[w]) :
        trace[w][i][2] # 0 => /\ i = Len(trace[w])
                              /\ Exited(w)
                              /\ exit[w] # 0

\* C1 witness: a run that stopped at a failing git init, after four commands
C1_Witness ==
    \E w \in Workspaces :
        /\ Exited(w)
        /\ Len(trace[w]) = 5
        /\ trace[w][5] = << "init", 128 >>

\* C2: a failed push leaves the remote branch as it was.  When the latest run
\* has ended at a failing git push, the history of the remote branch equals
\* the history it had when that run started.
C2_FailedPushKeepsRemote ==
    \A w \in Workspaces :
        (Latest(w) /\ Exited(w) /\ Failed(w, "push")) => remote = startRemote[w]

\* C2 witness: a run ended at a failing push while the branch held a history
C2_Witness ==
    \E w \in Workspaces :
        /\ Latest(w) /\ Exited(w) /\ Failed(w, "push")
        /\ Len(remote) = 2
        /\ repo[w].branch = PushSource

\* C3: when the Builder fails the run ends with a non-zero status and nothing
\* is published: none of git init, git add, git commit, git push has run, and
\* the remote branch is as it was when the run started.
C3_BuildFailureNoPublish ==
    \A w \in Workspaces :
        Failed(w, "build") =>
            /\ Exited(w)
            /\ exit[w] # 0
            /\ \A s \in {"init", "add", "commit", "push"} : ~Ran(w, s)
            /\ Latest(w) => remote = startRemote[w]

\* C3 witness: the Builder failed leaving part of its output behind
C3_Witness ==
    \E w \in Workspaces :
        /\ Failed(w, "build")
        /\ Latest(w)
        /\ build[w].exists
        /\ build[w].files["schema-design.html"] # Absent

\* C4: the commands of a run occur in script order, each one only after the
\* one before it succeeded: the i-th command run is the i-th command of the
\* script and every command before the last one run returned 0.  So the push
\* comes after the commit, and the commit after the build and the marker.
C4_ScriptOrder ==
    \A w \in Workspaces :
        /\ Len(trace[w]) <= Len(Script)
        /\ \A i \in 1..Len(trace[w]) :
              /\ trace[w][i][1] = Script[i]
              /\ i < Len(trace[w]) => trace[w][i][2] = 0
        /\ Running(w) => pc[w] = Script[Len(trace[w]) + 1]

\* C4 witness: a run that has pushed
C4_Witness ==
    \E w \in Workspaces :
        /\ pc[w] = "cdback"
        /\ trace[w][Len(trace[w])] = << "push", 0 >>

\* C5: after a successful run the remote branch is exactly one snapshot: a
\* single commit without a parent, made by this run, whose tree is the whole
\* output directory of the run; the history the branch held before is gone.
C5_SingleSnapshot ==
    \A w \in Workspaces :
        (Latest(w) /\ Succeeded(w)) =>
            /\ Len(remote) = 1
            /\ remote = repo[w].log
            /\ remote[1].tree = build[w].files
            /\ remote[1].message = CommitMessage

\* C5 witness: a successful run that replaced a history of two commits
C5_Witness ==
    \E w \in Workspaces :
        /\ Latest(w) /\ Succeeded(w)
        /\ Len(startRemote[w]) = 2

\* C6: after a successful run the marker file .nojekyll is in the root of the
\* published snapshot.
C6_MarkerPublished ==
    \A w \in Workspaces :
        (Latest(w) /\ Succeeded(w)) =>
            /\ remote # << >>
            /\ Marker \in FilesOf(remote[Len(remote)].tree)

\* C6 witness: a successful first publish to a branch that did not exist, from
\* a directory that had no build output
C6_Witness ==
    \E w \in Workspaces :
        /\ Latest(w) /\ Succeeded(w)
        /\ startRemote[w] = << >>
        /\ ~hadBuild[w]

\* C7: clean slate.  When build existed before a run that then succeeded, the
\* directory holds exactly the files generated in that run plus the marker
\* file, its repository holds the one commit of that run, and so does the
\* snapshot published from it: nothing of the previous build is left.
C7_CleanSlate ==
    \A w \in Workspaces :
        (hadBuild[w] /\ Succeeded(w)) =>
            /\ build[w].files = Publishable(builtFrom[w])
            /\ Len(repo[w].log) = 1
            /\ repo[w].log[1].tree = Publishable(builtFrom[w])
            /\ Latest(w) => remote = repo[w].log

\* C7 witness: a second successful run in a directory that held the output
\* and the repository of the first
C7_Witness ==
    \E w \in Workspaces :
        /\ hadBuild[w] /\ Succeeded(w) /\ Latest(w)
        /\ Len(published) = 2
        /\ published[1].run = 1
        /\ runNo[w] = 2
        /\ \A o \in Workspaces \ {w} : runNo[o] = 0

\* C8: two runs in succession from the same revision of the sources publish
\* two different snapshots with the same file tree.
C8_SameTreeNewSnapshot ==
    \A i \in 1..Len(published) : \A j \in 1..Len(published) :
        (/\ published[j].run = published[i].run + 1
         /\ published[i].from = published[j].from) =>
            /\ published[i].snapshot # published[j].snapshot
            /\ published[i].snapshot[Len(published[i].snapshot)].tree
                 = published[j].snapshot[Len(published[j].snapshot)].tree

\* C8 witness: runs 1 and 2 both published, from the same revision
C8_Witness ==
    /\ Len(published) = 2
    /\ published[1].run = 1
    /\ published[2].run = 2
    /\ published[1].from = published[2].from

\* C9: the exit status is 0 exactly when every command of the script returned
\* 0; otherwise it is the status of the first command that failed.  After an
\* exit with 0 the remote branch holds the snapshot built in this run.
C9_ExitStatus ==
    \A w \in Workspaces :
        Exited(w) =>
            /\ exit[w] = 0 <=> /\ Len(trace[w]) = Len(Script)
                               /\ \A i \in 1..Len(trace[w]) : trace[w][i][2] = 0
            /\ exit[w] # 0 =>
                  \E i \in 1..Len(trace[w]) :
                      /\ trace[w][i][2] = exit[w]
                      /\ \A j \in 1..(i - 1) : trace[w][j][2] = 0
            /\ (exit[w] = 0 /\ Latest(w)) =>
                  /\ remote = repo[w].log
                  /\ published # << >>
                  /\ published[Len(published)].run = runNo[w]
                  /\ remote[Len(remote)].tree = Publishable(builtFrom[w])

\* C9 witness: a run that exited with the status 1 of a rejected push
C9_Witness ==
    \E w \in Workspaces :
        /\ Exited(w)
        /\ exit[w] = 1
        /\ trace[w][Len(trace[w])] = << "push", 1 >>

\* C10: with overlapping runs, the remote branch is at any time either what
\* it was at the beginning or the complete snapshot of the one run whose push
\* landed last: a single commit whose tree is that run's output, never a
\* mixture of the files or the history of two runs.
C10_LastPushWins ==
    /\ published = << >> => remote \in InitialRemotes
    /\ \A i \in 1..Len(published) :
          /\ Len(published[i].snapshot) = 1
          /\ published[i].snapshot[1].tree = Publishable(published[i].from)
          /\ i = Len(published) => remote = published[i].snapshot

\* C10 witness: two overlapping runs built from different revisions and have
\* both pushed
C10_Witness ==
    /\ Len(published) = 2
    /\ published[1].from # published[2].from
    /\ \A w \in Workspaces : pc[w] = "cdback"

(* ------------------------------------------- the Deploy documentation workflow *)
PushMain == [kind |-> "push", branch |-> "main"]

\* what can happen in the project's repository: pushes to main, to the
\* published branch and to another branch, and a pull request against main
Events ==
    { PushMain,
      [kind |-> "push", branch |-> "docs"],
      [kind |-> "push", branch |-> "feature"],
      [kind |-> "pull_request", branch |-> "main"] }

\* a workflow that also runs on pull requests against main
TriggersPushOrPullRequest(e) ==
    e.kind \in {"push", "pull_request"} /\ e.branch = "main"

\* on: push: branches: [main]
Triggers(e) == e.kind = "push" /\ e.branch = "main"

\* the steps of job build, in order
WorkflowSteps == << "checkout", "setup-node", "install", "publish" >>

WfIndex(s) == CHOOSE i \in 1..Len(WorkflowSteps) : WorkflowSteps[i] = s

WfActive == wfpc \notin {"idle", "done", "failed"}

\* an event starts a run of the workflow on a fresh runner
Trigger(e) ==
    /\ Triggers(e)
    /\ ~WfActive
    /\ runs < MaxRuns
    /\ lastEvent' = e
    /\ wfEvent' = e
    /\ wfpc' = WorkflowSteps[1]
    /\ wfTrace' = << >>
    /\ UNCHANGED << pc, cwd, build, repo, exit, trace, runNo, startRemote, hadBuild,
                    builtFrom, runs, docs, now, remote, published, project, gitGlobal >>

\* an event the workflow does not run on
Ignore(e) ==
    /\ ~Triggers(e)
    /\ lastEvent' = e
    /\ UNCHANGED << pc, cwd, build, repo, exit, trace, runNo, startRemote, hadBuild,
                    builtFrom, runs, docs, now, remote, published, project, gitGlobal,
                    wfpc, wfEvent, wfTrace >>

\* a step that succeeds is followed by the next step of the job; a step that
\* fails ends the job
WfDone(s, status) ==
    /\ wfTrace' = Append(wfTrace, << s, status >>)
    /\ wfpc' = IF status # 0 THEN "failed"
               ELSE IF WfIndex(s) < Len(WorkflowSteps) THEN WorkflowSteps[WfIndex(s) + 1]
               ELSE "done"

\* uses: actions/checkout@v1, on a new ubuntu-latest machine: a checkout
\* without build directory
WfCheckout ==
    /\ wfpc = "checkout"
    /\ \/ /\ WfDone("checkout", 0)
          /\ build' = [build EXCEPT !["ci"] = NoDir]
          /\ repo' = [repo EXCEPT !["ci"] = NoRepo]
       \/ /\ WfDone("checkout", 1)
          /\ UNCHANGED << build, repo >>
    /\ UNCHANGED << pc, cwd, exit, trace, runNo, startRemote, hadBuild, builtFrom,
                    runs, docs, now, remote, published, project, gitGlobal,
                    wfEvent, lastEvent >>

\* uses: actions/setup-node@v4
WfSetupNode ==
    /\ wfpc = "setup-node"
    /\ \E status \in {0, 1} : WfDone("setup-node", status)
    /\ UNCHANGED << pc, cwd, build, repo, exit, trace, runNo, startRemote, hadBuild,
                    builtFrom, runs, docs, now, remote, published, project, gitGlobal,
                    wfEvent, lastEvent >>

\* run: yarn install
WfInstall ==
    /\ wfpc = "install"
    /\ \E status \in {0, 1} : WfDone("install", status)
    /\ UNCHANGED << pc, cwd, build, repo, exit, trace, runNo, startRemote, hadBuild,
                    builtFrom, runs, docs, now, remote, published, project, gitGlobal,
                    wfEvent, lastEvent >>

\* name: publish to github pages: the step starts the deploy script in the
\* runner's checkout
WfPublish ==
    /\ wfpc = "publish"
    /\ Start("ci")
    /\ wfpc' = "deploying"
    /\ UNCHANGED << wfEvent, wfTrace, lastEvent >>

\* the step ends with the status of the script
WfPublishEnd ==
    /\ wfpc = "deploying"
    /\ Exited("ci")
    /\ WfDone("publish", exit["ci"])
    /\ UNCHANGED << pc, cwd, build, repo, exit, trace, runNo, startRemote, hadBuild,
                    builtFrom, runs, docs, now, remote, published, project, gitGlobal,
                    wfEvent, lastEvent >>

\* the script is run by the workflow only
NextCI ==
    \/ \E e \in Events : Trigger(e)
    \/ \E e \in Events : Ignore(e)
    \/ WfCheckout
    \/ WfSetupNode
    \/ WfInstall
    \/ WfPublish
    \/ Step("ci")
    \/ WfPublishEnd
    \/ EditDocs

SpecCI == Init /\ [][NextCI]_vars

SpecFair == Init /\ [][NextCI]_vars /\ WF_vars(Step("ci"))

\* no command occurs twice in the trace of a run
AtMostOnce ==
    \A w \in Workspaces : \A s \in Steps : Cardinality(RanAt(w, s)) <= 1

C13_PushNeedsMainBranch ==
    \A w \in Workspaces :
        Ran(w, "push") =>
            /\ ~Failed(w, "push") =>
                  /\ repo[w].branch = PushSource
                  /\ \E i \in 1..Len(published) :
                        /\ published[i].run = runNo[w]
                        /\ published[i].snapshot = repo[w].log
            /\ repo[w].branch # PushSource =>
                  /\ Failed(w, "push")
                  /\ Exited(w)
                  /\ exit[w] # 0
                  /\ Latest(w) => remote = startRemote[w]

\* C13 witness: a run whose git init named the branch master ended at the push
C13_Witness ==
    \E w \in Workspaces :
        /\ Latest(w)
        /\ Exited(w)
        /\ Failed(w, "push")
        /\ repo[w].branch = "master"
        /\ Len(startRemote[w]) = 2

\* C14: frame.  A command of the script run in workspace w changes nothing
\* but the output directory of w with its repository and the remote branch:
\* the content sources, the checkout around build (the build configuration,
\* the project's own history and branches), the user's git configuration and
\* the other workspaces are after the command what they were before it,
\* whether the command succeeds or fails.
C14_Frame ==
    [][\A w \in Workspaces :
          (Running(w) /\ pc'[w] # pc[w]) =>
              /\ docs' = docs
              /\ project' = project
              /\ gitGlobal' = gitGlobal
              /\ \A o \in Workspaces \ {w} :
                    /\ build'[o] = build[o]
                    /\ repo'[o] = repo[o]
                    /\ cwd'[o] = cwd[o]]_vars

\* C14 witness: after a successful run the committer identity is in the
\* repository inside build and the user's configuration has none
C14_Witness ==
    \E w \in Workspaces :
        /\ Succeeded(w)
        /\ repo[w].email = UserEmail
        /\ repo[w].name = UserName
        /\ remote[1].author = << UserName, UserEmail >>
        /\ gitGlobal[w] = NoIdentity
        /\ project[w] = InitialProject

====
